---- MODULE Spec2Model ----
(***************************************************************************)
(* Model of scripts/importer.py: the bookmark importer of qutebrowser.     *)
(*                                                                         *)
(* A Python str is a sequence of one-character strings, so that            *)
(* str.replace, the `in` substring test, str.format and the comparison of  *)
(* an href with a rendered line are computed character by character.       *)
(* A parsed document (the soup) is the sequence of its tags in document    *)
(* order; a tag has a name, an attribute map (a function whose domain is   *)
(* the set of attributes present) and a list of child strings, from which  *)
(* tag.string is None unless there is exactly one child.                   *)
(***************************************************************************)
EXTENDS Integers, Sequences, FiniteSets

\* ------------------------------------------------------------------------
\* Bounds of the model
\* ------------------------------------------------------------------------
MaxAnchors == 2

MaxTypes == 2

MaxLen == 3

\* ------------------------------------------------------------------------
\* Strings
\* ------------------------------------------------------------------------
Range(s) == {s[i] : i \in 1..Len(s)}

SeqsUpTo(S, n) == UNION {[1..k -> S] : k \in 0..n}

\* Python: old in s  (substring test)
Contains(s, old) ==
    \E i \in 1..(Len(s) - Len(old) + 1) : SubSeq(s, i, i + Len(old) - 1) = old

\* Python: s.replace(old, new) for a non-empty old: leftmost, non-overlapping
RECURSIVE Replace(_, _, _)
Replace(s, old, new) ==
    IF Len(s) < Len(old) THEN s
    ELSE IF SubSeq(s, 1, Len(old)) = old
         THEN new \o Replace(SubSeq(s, Len(old) + 1, Len(s)), old, new)
         ELSE <<s[1]>> \o Replace(Tail(s), old, new)

LBrace == <<"{">>

RBrace == <<"}">>

PercentS == <<"%", "s">>

Placeholder == <<"{", "}">>

NoneStr == <<"N", "o", "n", "e">>

\* search_escape(url): url.replace('{', '{{').replace('}', '}}')
search_escape(url) ==
    Replace(Replace(url, LBrace, LBrace \o LBrace), RBrace, RBrace \o RBrace)

\* mutant: %s is replaced before the braces are doubled
EscapedHref_late(href) == search_escape(Replace(href, PercentS, Placeholder))

\* the right-hand side of line 199: search_escape(href).replace('%s', '{}')
EscapedHref(href) == Replace(search_escape(href), PercentS, Placeholder)

\* ------------------------------------------------------------------------
\* Tags
\* ------------------------------------------------------------------------
NoAttrs == [x \in {} |-> <<>>]

Tag(name, attrs, contents) == [name |-> name, attrs |-> attrs, contents |-> contents]

HasString(tag) == Len(tag.contents) = 1

\* tag.string: the single child string, None (HasString false) otherwise
TagString(tag) == tag.contents[1]

\* Python truthiness of tag.string: not None and not ''
StringTruthy(tag) == HasString(tag) /\ TagString(tag) # <<>>

\* the lambdas of bookmark_query; `and` short-circuits, so tag['href'] is
\* only evaluated on an anchor that has shortcuturl
QueryRaises(typ, tag) ==
    /\ typ \in {"search", "keyword"}
    /\ tag.name = "a"
    /\ "shortcuturl" \in DOMAIN tag.attrs
    /\ "href" \notin DOMAIN tag.attrs

\* mutant: the bookmark predicate does not test for shortcuturl
bookmark_query_any(typ, tag) ==
    CASE typ = "search" ->
            /\ tag.name = "a"
            /\ "shortcuturl" \in DOMAIN tag.attrs
            /\ Contains(tag.attrs.href, PercentS)
      [] typ = "keyword" ->
            /\ tag.name = "a"
            /\ "shortcuturl" \in DOMAIN tag.attrs
            /\ ~Contains(tag.attrs.href, PercentS)
      [] typ = "bookmark" ->
            /\ tag.name = "a"
            /\ StringTruthy(tag)

bookmark_query(typ, tag) ==
    CASE typ = "search" ->
            /\ tag.name = "a"
            /\ "shortcuturl" \in DOMAIN tag.attrs
            /\ Contains(tag.attrs.href, PercentS)
      [] typ = "keyword" ->
            /\ tag.name = "a"
            /\ "shortcuturl" \in DOMAIN tag.attrs
            /\ ~Contains(tag.attrs.href, PercentS)
      [] typ = "bookmark" ->
            /\ tag.name = "a"
            /\ "shortcuturl" \notin DOMAIN tag.attrs
            /\ StringTruthy(tag)

\* ------------------------------------------------------------------------
\* Templates: a template is a sequence of pieces, a literal text or a
\* replacement field of the format string
\* ------------------------------------------------------------------------
Lit(s) == [lit |-> s]

Field(f) == [field |-> f]

\* mutant: the quickmark template of a bookmark has its fields swapped
output_template_swapped ==
    [search |->
        [search |-> << Lit(<<"c", ".", "u", "r", "l", ".", "s", "e", "a", "r",
                             "c", "h", "e", "n", "g", "i", "n", "e", "s", "[", "'">>),
                       Field("shortcuturl"),
                       Lit(<<"'", "]", " ", "=", " ", "'">>),
                       Field("href"),
                       Lit(<<"'", " ", "#">>),
                       Field("string") >>],
     oldsearch |->
        [search |-> << Field("shortcuturl"), Lit(<<" ", "=", " ">>),
                       Field("href"), Lit(<<" ", "#">>), Field("string") >>],
     bookmark |->
        [bookmark |-> << Field("href"), Lit(<<" ">>), Field("string") >>,
         keyword  |-> << Field("href"), Lit(<<" ">>), Field("string") >>],
     quickmark |->
        [bookmark |-> << Field("href"), Lit(<<" ">>), Field("string") >>,
         keyword  |-> << Field("shortcuturl"), Lit(<<" ">>), Field("href") >>]]

\* mutant: the bookmark mode has a template for the search category too
output_template_total ==
    [search |->
        [search |-> << Lit(<<"c", ".", "u", "r", "l", ".", "s", "e", "a", "r",
                             "c", "h", "e", "n", "g", "i", "n", "e", "s", "[", "'">>),
                       Field("shortcuturl"),
                       Lit(<<"'", "]", " ", "=", " ", "'">>),
                       Field("href"),
                       Lit(<<"'", " ", "#">>),
                       Field("string") >>],
     oldsearch |->
        [search |-> << Field("shortcuturl"), Lit(<<" ", "=", " ">>),
                       Field("href"), Lit(<<" ", "#">>), Field("string") >>],
     bookmark |->
        [bookmark |-> << Field("href"), Lit(<<" ">>), Field("string") >>,
         keyword  |-> << Field("href"), Lit(<<" ">>), Field("string") >>,
         search   |-> << Field("href"), Lit(<<" ">>), Field("string") >>],
     quickmark |->
        [bookmark |-> << Field("string"), Lit(<<" ">>), Field("href") >>,
         keyword  |-> << Field("shortcuturl"), Lit(<<" ">>), Field("href") >>]]

output_template ==
    [search |->
        [search |-> << Lit(<<"c", ".", "u", "r", "l", ".", "s", "e", "a", "r",
                             "c", "h", "e", "n", "g", "i", "n", "e", "s", "[", "'">>),
                       Field("shortcuturl"),
                       Lit(<<"'", "]", " ", "=", " ", "'">>),
                       Field("href"),
                       Lit(<<"'", " ", "#">>),
                       Field("string") >>],
     oldsearch |->
        [search |-> << Field("shortcuturl"), Lit(<<" ", "=", " ">>),
                       Field("href"), Lit(<<" ", "#">>), Field("string") >>],
     bookmark |->
        [bookmark |-> << Field("href"), Lit(<<" ">>), Field("string") >>,
         keyword  |-> << Field("href"), Lit(<<" ">>), Field("string") >>],
     quickmark |->
        [bookmark |-> << Field("string"), Lit(<<" ">>), Field("href") >>,
         keyword  |-> << Field("shortcuturl"), Lit(<<" ">>), Field("href") >>]]

\* output_template[output_format][typ] raises KeyError without an entry
TemplateMissing(fmt, typ) == typ \notin DOMAIN output_template[fmt]

\* a replacement field raises KeyError for an attribute the tag lacks;
\* {tag.string} never raises: None is formatted as 'None'
PieceRaises(p, tag) ==
    /\ "field" \in DOMAIN p
    /\ p.field # "string"
    /\ p.field \notin DOMAIN tag.attrs

FormatPiece(p, tag) ==
    IF "lit" \in DOMAIN p THEN p.lit
    ELSE IF p.field = "string"
         THEN (IF HasString(tag) THEN TagString(tag) ELSE NoneStr)
         ELSE tag.attrs[p.field]

RECURSIVE Format(_, _)
Format(tpl, tag) ==
    IF tpl = <<>> THEN <<>>
    ELSE FormatPiece(Head(tpl), tag) \o Format(Tail(tpl), tag)

FormatRaises(tpl, tag) == \E k \in 1..Len(tpl) : PieceRaises(tpl[k], tag)

\* ------------------------------------------------------------------------
\* main(): resolution of the command line
\* ------------------------------------------------------------------------
Flags == {"search_output", "oldconfig", "bookmark_output", "quickmark_output",
          "import_bookmarks", "import_keywords"}

ArgSet == [Flags -> BOOLEAN]

NoArgs == [f \in Flags |-> FALSE]

\* mutant: -s does not discard -B and -K
main_bookmark_types_append(a) ==
    LET t0 == (IF a.search_output THEN <<"search">> ELSE <<>>)
              \o (IF a.import_bookmarks THEN <<"bookmark">> ELSE <<>>)
              \o (IF a.import_keywords THEN <<"keyword">> ELSE <<>>)
    IN IF t0 = <<>> THEN <<"bookmark", "keyword">> ELSE t0

main_bookmark_types(a) ==
    LET t0 == IF a.search_output
              THEN <<"search">>
              ELSE (IF a.import_bookmarks THEN <<"bookmark">> ELSE <<>>)
                   \o (IF a.import_keywords THEN <<"keyword">> ELSE <<>>)
    IN IF t0 = <<>> THEN <<"bookmark", "keyword">> ELSE t0

main_output_format(a) ==
    LET f0 == IF a.search_output
              THEN (IF a.oldconfig THEN "oldsearch" ELSE "search")
              ELSE IF a.bookmark_output THEN "bookmark"
                   ELSE IF a.quickmark_output THEN "quickmark"
                   ELSE "None"
    IN IF f0 = "None" THEN "quickmark" ELSE f0

\* ------------------------------------------------------------------------
\* Inputs
\* ------------------------------------------------------------------------
Types == {"search", "keyword", "bookmark"}

Formats == {"search", "oldsearch", "bookmark", "quickmark"}

Anchor(href, contents) == Tag("a", [href |-> href], contents)

Shortcut(href, key, contents) ==
    Tag("a", [href |-> href, shortcuturl |-> key], contents)

TagPool ==
    { Anchor(<<"a">>, << <<"b">> >>),
      Anchor(<<"b", " ", "a">>, << <<"b">> >>),
      Anchor(<<"a">>, << <<"{", "}">> >>),
      Anchor(<<"a">>, <<>>),
      Anchor(<<"a">>, << <<>> >>),
      Shortcut(<<"%", "s", " ", "a">>, <<"k">>, << <<"b">> >>),
      Shortcut(<<"a">>, <<"k">>, <<>>),
      Tag("a", [shortcuturl |-> <<"k">>], << <<"b">> >>),
      Tag("a", NoAttrs, << <<"b">> >>),
      Tag("h3", NoAttrs, << <<"b">> >>) }

Alphabet == {"{", "}", "%", "s"}

\* the three anchors of the end-to-end scenario
ScenarioDoc ==
    << Anchor(<<"h", "t", "t", "p", ":", "/", "/", "a", ".", "c", "o", "m">>,
              << <<"S", "i", "t", "e", " ", "A">> >>),
       Shortcut(<<"h", "t", "t", "p", ":", "/", "/", "b", ".", "c", "o", "m",
                  "?", "q", "=", "%", "s">>, <<"b">>, << <<"B">> >>),
       Shortcut(<<"h", "t", "t", "p", ":", "/", "/", "c", ".", "c", "o", "m">>,
                <<"c">>, << <<"C">> >>) >>

\* hrefs [A, B, A, C]
RepeatDoc ==
    << Anchor(<<"a">>, << <<"x">> >>), Anchor(<<"b">>, << <<"y">> >>),
       Anchor(<<"a">>, << <<"x">> >>), Anchor(<<"c">>, << <<"z">> >>) >>

\* the same href under two categories
CrossDoc ==
    << Anchor(<<"a">>, << <<"x">> >>), Shortcut(<<"a">>, <<"k">>, << <<"x">> >>) >>

EscapeDoc ==
    << Shortcut(<<"h", "t", "t", "p", ":", "/", "/", "x", "/", "%", "s">>,
                <<"x">>, << <<"X">> >>),
       Shortcut(<<"a", "{", "b", "}", "%", "s">>, <<"y">>, << <<"Y">> >>) >>

\* one anchor for every combination of shortcuturl, %s in the href and text
ComboDocs ==
    {<<Tag("a", attrs, contents)>> :
        attrs \in {[href |-> h] : h \in {<<"a">>, <<"%", "s">>}}
                  \cup {[href |-> h, shortcuturl |-> <<"k">>] : h \in {<<"a">>, <<"%", "s">>}},
        contents \in {<<>>, << <<>> >>, << <<"b">> >>}}

Docs ==
    SeqsUpTo(TagPool, MaxAnchors) \cup ComboDocs \cup {ScenarioDoc, RepeatDoc, CrossDoc}

\* one shortcut anchor per href over the alphabet of the escape
EscapeDocs ==
    {<<Shortcut(h, <<"k">>, << <<"b">> >>)>> : h \in SeqsUpTo(Alphabet, MaxLen)}
    \cup {EscapeDoc}

Markup(docs) == {[kind |-> "markup", tags |-> d] : d \in docs}

\* the bytes of the bookmarks file: markup with the given tags, nothing at
\* all, text without any markup, or bytes that are not UTF-8
Files ==
    Markup(Docs) \cup {[kind |-> k, tags |-> <<>>] : k \in {"empty", "text", "binary"}}

\* open(..., encoding='utf-8') and BeautifulSoup(f, 'html.parser')
ParseRaises(f) == f.kind = "binary"

Parse(f) == IF f.kind = "markup" THEN f.tags ELSE <<>>

\* ------------------------------------------------------------------------
\* State
\* ------------------------------------------------------------------------
VARIABLES
    file,            \* the content of bookmarks_file
    caller,          \* "none", "main" or "direct"
    args,            \* the parsed command line (main only)
    bookmark_types,  \* parameter of import_netscape_bookmarks
    output_format,   \* parameter of import_netscape_bookmarks
    soup,            \* the parsed document, tags in document order
    typIdx,          \* position of `for typ in bookmark_types`
    tags,            \* result of soup.findAll: indices into soup
    tagIdx,          \* position of `for tag in tags`
    bookmarks,       \* the list `bookmarks`
    stdout,          \* lines printed so far
    pc,              \* "start", "open", "types", "tags", "print", "done", "failed"
    err,             \* the exception that ended the run, "" if none
    processed        \* history: the anchors that reached line 200

vars == <<file, caller, args, bookmark_types, output_format, soup, typIdx,
          tags, tagIdx, bookmarks, stdout, pc, err, processed>>

InitWith(files) ==
    /\ file \in files
    /\ caller = "none"
    /\ args = NoArgs
    /\ bookmark_types = <<>>
    /\ output_format = "quickmark"
    /\ soup = <<>>
    /\ typIdx = 1
    /\ tags = <<>>
    /\ tagIdx = 1
    /\ bookmarks = <<>>
    /\ stdout = <<>>
    /\ pc = "start"
    /\ err = ""
    /\ processed = <<>>

\* main() up to the call of import_netscape_bookmarks; input_format always
\* resolves to 'netscape', the only entry of import_function
Main ==
    /\ pc = "start"
    /\ \E a \in ArgSet :
        /\ args' = a
        /\ bookmark_types' = main_bookmark_types(a)
        /\ output_format' = main_output_format(a)
    /\ caller' = "main"
    /\ pc' = "open"
    /\ UNCHANGED <<file, soup, typIdx, tags, tagIdx, bookmarks, stdout, err, processed>>

\* import_netscape_bookmarks called with arbitrary arguments
Call ==
    /\ pc = "start"
    /\ \E ts \in SeqsUpTo(Types, MaxTypes), fmt \in Formats :
        /\ bookmark_types' = ts
        /\ output_format' = fmt
    /\ caller' = "direct"
    /\ pc' = "open"
    /\ UNCHANGED <<file, args, soup, typIdx, tags, tagIdx, bookmarks, stdout, err, processed>>

\* lines 159-161 and `bookmarks = []`
Open ==
    /\ pc = "open"
    /\ IF ParseRaises(file)
       THEN /\ pc' = "failed"
            /\ err' = "UnicodeDecodeError"
            /\ UNCHANGED soup
       ELSE /\ pc' = "types"
            /\ soup' = Parse(file)
            /\ UNCHANGED err
    /\ UNCHANGED <<file, caller, args, bookmark_types, output_format, typIdx,
                   tags, tagIdx, bookmarks, stdout, processed>>

\* mutant: the matches are returned last first
FindAll_reversed(typ, doc) ==
    LET RECURSIVE Sel(_)
        Sel(i) == IF i < 1 THEN <<>>
                  ELSE (IF bookmark_query(typ, doc[i]) THEN <<i>> ELSE <<>>) \o Sel(i - 1)
    IN Sel(Len(doc))

\* soup.findAll(bookmark_query[typ]): every tag is tested, in document order
FindAll(typ, doc) ==
    LET RECURSIVE Sel(_)
        Sel(i) == IF i > Len(doc) THEN <<>>
                  ELSE (IF bookmark_query(typ, doc[i]) THEN <<i>> ELSE <<>>) \o Sel(i + 1)
    IN Sel(1)

FindAllRaises(typ, doc) == \E i \in 1..Len(doc) : QueryRaises(typ, doc[i])

\* one iteration of `for typ in bookmark_types` up to the inner loop
Scan ==
    /\ pc = "types"
    /\ typIdx <= Len(bookmark_types)
    /\ LET typ == bookmark_types[typIdx] IN
       IF FindAllRaises(typ, soup)
       THEN /\ pc' = "failed"
            /\ err' = "KeyError_href"
            /\ UNCHANGED <<tags, tagIdx, typIdx>>
       ELSE LET found == FindAll(typ, soup) IN
            /\ tags' = found
            /\ tagIdx' = 1
            /\ IF found = <<>>
               THEN pc' = "types" /\ typIdx' = typIdx + 1
               ELSE pc' = "tags" /\ typIdx' = typIdx
            /\ UNCHANGED err
    /\ UNCHANGED <<file, caller, args, bookmark_types, output_format, soup,
                   bookmarks, stdout, processed>>

\* line 200: tag['href'] not in bookmarks
Admit(href, lines) == href \notin Range(lines)

\* one iteration of `for tag in tags`, lines 198-202
ProcessTag ==
    /\ pc = "tags"
    /\ LET typ == bookmark_types[typIdx]
           i   == tags[tagIdx]
           tag == soup[i]
           last == tagIdx = Len(tags)
       IN
       IF "href" \notin DOMAIN tag.attrs
       THEN /\ pc' = "failed"
            /\ err' = "KeyError_href"
            /\ UNCHANGED <<soup, bookmarks, processed, typIdx, tagIdx>>
       ELSE LET href == IF typ = "search" THEN EscapedHref(tag.attrs.href)
                        ELSE tag.attrs.href
                tag2 == [tag EXCEPT !.attrs = [tag.attrs EXCEPT !.href = href]]
                admit == Admit(href, bookmarks)
                raises == \/ TemplateMissing(output_format, typ)
                          \/ FormatRaises(output_template[output_format][typ], tag2)
            IN
            /\ soup' = [soup EXCEPT ![i] = tag2]
            /\ processed' = Append(processed,
                    [typIdx |-> typIdx, idx |-> i, href |-> href, admit |-> admit,
                     line |-> IF admit /\ ~raises THEN Len(bookmarks) + 1 ELSE 0])
            /\ IF admit /\ raises
               THEN /\ pc' = "failed"
                    /\ err' = IF TemplateMissing(output_format, typ)
                              THEN "KeyError_template" ELSE "KeyError_field"
                    /\ UNCHANGED <<bookmarks, typIdx, tagIdx>>
               ELSE /\ bookmarks' = IF admit
                                    THEN Append(bookmarks,
                                                Format(output_template[output_format][typ], tag2))
                                    ELSE bookmarks
                    /\ IF last
                       THEN pc' = "types" /\ typIdx' = typIdx + 1 /\ tagIdx' = tagIdx
                       ELSE pc' = "tags" /\ typIdx' = typIdx /\ tagIdx' = tagIdx + 1
                    /\ UNCHANGED err
    /\ UNCHANGED <<file, caller, args, bookmark_types, output_format, tags, stdout>>

\* the outer loop is exhausted
EndTypes ==
    /\ pc = "types"
    /\ typIdx > Len(bookmark_types)
    /\ pc' = "print"
    /\ UNCHANGED <<file, caller, args, bookmark_types, output_format, soup,
                   typIdx, tags, tagIdx, bookmarks, stdout, err, processed>>

\* for bookmark in bookmarks: print(bookmark)
PrintLines ==
    /\ pc = "print"
    /\ IF Len(stdout) < Len(bookmarks)
       THEN /\ stdout' = Append(stdout, bookmarks[Len(stdout) + 1])
            /\ pc' = "print"
       ELSE /\ pc' = "done"
            /\ UNCHANGED stdout
    /\ UNCHANGED <<file, caller, args, bookmark_types, output_format, soup,
                   typIdx, tags, tagIdx, bookmarks, err, processed>>

\* import_netscape_bookmarks, called with any arguments
Init == InitWith(Files)

Next == Call \/ Open \/ Scan \/ ProcessTag \/ EndTypes \/ PrintLines

Spec == Init /\ [][Next]_vars

\* the program, started from the command line
NextMain == Main \/ Open \/ Scan \/ ProcessTag \/ EndTypes \/ PrintLines

SpecMain == Init /\ [][NextMain]_vars

\* import_netscape_bookmarks, with the documents of the escape among its inputs
InitEscape == InitWith(Files \cup Markup(EscapeDocs))

SpecEscape == InitEscape /\ [][Next]_vars

\* ------------------------------------------------------------------------
\* Properties
\* ------------------------------------------------------------------------
\* the tag of a history entry, as it was in the input
Orig(p) == file.tags[p.idx]

TypOf(p) == bookmark_types[p.typIdx]

Entries == {processed[k] : k \in 1..Len(processed)}

\* section 4.6 of the specification: the legal pairs
LegalPair(fmt, typ) ==
    \/ typ = "search" /\ fmt \in {"search", "oldsearch"}
    \/ typ \in {"bookmark", "keyword"} /\ fmt \in {"bookmark", "quickmark"}

\* C1: an anchor yields a line iff no earlier processed anchor of the run had
\* an equal href; hrefs [A, B, A, C] give exactly three lines
C1_DedupByHref ==
    /\ \A k \in 1..Len(processed) :
          processed[k].admit <=>
              (\A j \in 1..(k - 1) : processed[j].href # processed[k].href)
    /\ (pc = "done" /\ file.tags = RepeatDoc /\ bookmark_types = <<"bookmark">>)
          => Len(stdout) = 3

\* C4: at most one of the three predicates holds of any tag, and an anchor
\* without shortcuturl and without text matches none and raises nothing
Matches(tag) == {typ \in Types : ~QueryRaises(typ, tag) /\ bookmark_query(typ, tag)}

C4_Exclusive ==
    \A i \in 1..Len(soup) :
        /\ Cardinality(Matches(soup[i])) <= 1
        /\ (/\ soup[i].name = "a"
            /\ "shortcuturl" \notin DOMAIN soup[i].attrs
            /\ ~StringTruthy(soup[i]))
           => (/\ Matches(soup[i]) = {}
               /\ \A typ \in Types : ~QueryRaises(typ, soup[i])
               /\ \A p \in Entries : p.idx # i)

\* a finished run over a textless plain anchor next to a matching anchor
C4_Witness ==
    /\ pc = "done"
    /\ Len(bookmark_types) = 2
    /\ stdout # <<>>
    /\ \E i \in 1..Len(soup) :
          /\ soup[i].name = "a"
          /\ DOMAIN soup[i].attrs = {"href"}
          /\ ~HasString(soup[i])

\* C6: main() resolves the flags as the specification's resolver: -s forces
\* [Search] with Search or OldSearch; otherwise the flagged categories (default
\* both) and the flagged mode (default Quickmark); the pair is always legal
C6_Resolution ==
    caller = "main" =>
        /\ args.search_output =>
              /\ bookmark_types = <<"search">>
              /\ output_format = (IF args.oldconfig THEN "oldsearch" ELSE "search")
        /\ ~args.search_output =>
              /\ (args.import_bookmarks /\ args.import_keywords)
                    => bookmark_types = <<"bookmark", "keyword">>
              /\ (args.import_bookmarks /\ ~args.import_keywords)
                    => bookmark_types = <<"bookmark">>
              /\ (~args.import_bookmarks /\ args.import_keywords)
                    => bookmark_types = <<"keyword">>
              /\ (~args.import_bookmarks /\ ~args.import_keywords)
                    => bookmark_types = <<"bookmark", "keyword">>
              /\ (args.bookmark_output /\ ~args.quickmark_output)
                    => output_format = "bookmark"
              /\ (~args.bookmark_output /\ args.quickmark_output)
                    => output_format = "quickmark"
              /\ (args.bookmark_output /\ args.quickmark_output)
                    => output_format \in {"bookmark", "quickmark"}
              /\ (~args.bookmark_output /\ ~args.quickmark_output)
                    => output_format = "quickmark"
        /\ \A k \in 1..Len(bookmark_types) : LegalPair(output_format, bookmark_types[k])

\* -s together with -B, -q and --oldconfig, run to the end with output
C6_Witness ==
    /\ caller = "main"
    /\ pc = "done"
    /\ args.search_output /\ args.oldconfig
    /\ args.import_bookmarks /\ args.quickmark_output
    /\ stdout # <<>>

Sp == <<" ">>

\* the line of the specification's table (section 4.5) for a legal pair,
\* with the prefix of the Search template as a parameter
TableLine(prefix, fmt, typ, href, text, shortcut) ==
    CASE fmt = "bookmark" -> href \o Sp \o text
      [] fmt = "quickmark" /\ typ = "bookmark" -> text \o Sp \o href
      [] fmt = "quickmark" /\ typ = "keyword" -> shortcut \o Sp \o href
      [] fmt = "search" ->
            prefix \o shortcut \o <<"'", "]", " ", "=", " ", "'">> \o href
                   \o <<"'", " ", "#">> \o text
      [] fmt = "oldsearch" ->
            shortcut \o <<" ", "=", " ">> \o href \o <<" ", "#">> \o text

SpecPrefix == <<"s", "e", "a", "r", "c", "h", "e", "n", "g", "i", "n", "e", "s", "[", "'">>

CodePrefix == <<"c", ".", "u", "r", "l", ".">> \o SpecPrefix

ShortcutOf(tag) ==
    IF "shortcuturl" \in DOMAIN tag.attrs THEN tag.attrs.shortcuturl ELSE <<>>

\* the templates of the specification's table that use the text
UsesText(fmt, typ) == ~(fmt = "quickmark" /\ typ = "keyword")

TextOf(tag) == IF HasString(tag) THEN TagString(tag) ELSE <<>>

\* every line produced for an anchor that carries the fields its template
\* uses is the table's line
LinesFollowTable(prefix) ==
    \A p \in Entries :
        (p.line # 0 /\ (UsesText(output_format, TypOf(p)) => HasString(Orig(p)))) =>
            bookmarks[p.line] =
                TableLine(prefix, output_format, TypOf(p), p.href,
                          TextOf(Orig(p)), ShortcutOf(Orig(p)))

ScenarioSearchRun ==
    /\ file.tags = ScenarioDoc
    /\ bookmark_types = <<"search">>
    /\ output_format = "search"
    /\ pc = "done"

\* C2 as stated: each line is the template of the specification's table with
\* the fields substituted, the Search template starting with searchengines['
C2_Original ==
    /\ LinesFollowTable(SpecPrefix)
    /\ ScenarioSearchRun =>
          stdout = << SpecPrefix \o <<"b", "'", "]", " ", "=", " ", "'",
                      "h", "t", "t", "p", ":", "/", "/", "b", ".", "c", "o", "m",
                      "?", "q", "=", "{", "}", "'", " ", "#", "B">> >>

\* C2 amended: the same with the Search template starting with
\* c.url.searchengines['
C2_Templates ==
    /\ LinesFollowTable(CodePrefix)
    /\ ScenarioSearchRun =>
          stdout = << CodePrefix \o <<"b", "'", "]", " ", "=", " ", "'",
                      "h", "t", "t", "p", ":", "/", "/", "b", ".", "c", "o", "m",
                      "?", "q", "=", "{", "}", "'", " ", "#", "B">> >>

\* the Search scenario has run to its end and printed its line
C2_Witness == ScenarioSearchRun /\ Len(stdout) = 1

\* C3: lines appear in category order, then document order; only anchors
\* matching the category of the pass are processed; what is printed is the
\* list, in order; the scenario gives "Site A http://a.com", "c http://c.com"
Before(p, q) == p.typIdx < q.typIdx \/ (p.typIdx = q.typIdx /\ p.idx < q.idx)

LineEntries == {k \in 1..Len(processed) : processed[k].line # 0}

C3_Order ==
    /\ \A j, k \in 1..Len(processed) : j < k => Before(processed[j], processed[k])
    /\ \A j, k \in LineEntries : j < k => processed[j].line < processed[k].line
    /\ {processed[k].line : k \in LineEntries} = 1..Len(bookmarks)
    /\ \A p \in Entries : \E typ \in Range(bookmark_types) :
          ~QueryRaises(typ, Orig(p)) /\ bookmark_query(typ, Orig(p))
    /\ \A k \in LineEntries : TypOf(processed[k]) \in Matches(Orig(processed[k]))
    /\ Len(stdout) <= Len(bookmarks)
    /\ stdout = SubSeq(bookmarks, 1, Len(stdout))
    /\ pc = "done" => stdout = bookmarks
    /\ (/\ pc = "done"
        /\ file.tags = ScenarioDoc
        /\ bookmark_types = <<"bookmark", "keyword">>
        /\ output_format = "quickmark")
       => stdout = << <<"S", "i", "t", "e", " ", "A", " ",
                        "h", "t", "t", "p", ":", "/", "/", "a", ".", "c", "o", "m">>,
                      <<"c", " ", "h", "t", "t", "p", ":", "/", "/", "c", ".", "c", "o", "m">> >>

C3_Witness ==
    /\ pc = "done"
    /\ file.tags = ScenarioDoc
    /\ bookmark_types = <<"bookmark", "keyword">>
    /\ output_format = "quickmark"
    /\ Len(stdout) = 2

\* the escape as the specification describes its result, character by
\* character: a brace is doubled, %s becomes {}, anything else is kept
RECURSIVE EscapeByChar(_)
EscapeByChar(s) ==
    IF s = <<>> THEN <<>>
    ELSE IF Len(s) >= 2 /\ SubSeq(s, 1, 2) = <<"%", "s">>
         THEN <<"{", "}">> \o EscapeByChar(SubSeq(s, 3, Len(s)))
         ELSE IF s[1] \in {"{", "}"}
              THEN <<s[1], s[1]>> \o EscapeByChar(Tail(s))
              ELSE <<s[1]>> \o EscapeByChar(Tail(s))

\* the inverse of brace doubling
RECURSIVE Undouble(_)
Undouble(s) ==
    IF s = <<>> THEN <<>>
    ELSE IF Len(s) >= 2 /\ s[1] \in {"{", "}"} /\ s[2] = s[1]
         THEN <<s[1]>> \o Undouble(SubSeq(s, 3, Len(s)))
         ELSE <<s[1]>> \o Undouble(Tail(s))

Braces(s) == Cardinality({i \in 1..Len(s) : s[i] \in {"{", "}"}})

InputHrefs ==
    {file.tags[i].attrs.href :
        i \in {j \in 1..Len(file.tags) : "href" \in DOMAIN file.tags[j].attrs}}

\* C5: the href of an anchor processed as Search is the escape of its input
\* href (braces doubled, then %s replaced by {}); without %s the escape only
\* doubles braces and un-doubling recovers the input; the escape is applied
\* in the Search pass only, other passes render the input href
C5_Escape ==
    /\ \A p \in Entries :
          IF TypOf(p) = "search"
          THEN /\ p.href = EscapeByChar(Orig(p).attrs.href)
               /\ soup[p.idx].attrs.href = p.href
          ELSE p.line # 0 =>
                  /\ p.href = Orig(p).attrs.href
                  /\ soup[p.idx].attrs.href = Orig(p).attrs.href
                  /\ Contains(bookmarks[p.line], Orig(p).attrs.href)
    /\ \A h \in InputHrefs :
          ~Contains(h, <<"%", "s">>) =>
              /\ EscapedHref(h) = EscapeByChar(h)
              /\ Len(EscapedHref(h)) = Len(h) + Braces(h)
              /\ Undouble(EscapedHref(h)) = h
    /\ (file.tags = EscapeDoc /\ bookmark_types = <<"search">> /\ pc = "done")
          => /\ soup[1].attrs.href = <<"h", "t", "t", "p", ":", "/", "/", "x", "/", "{", "}">>
             /\ soup[2].attrs.href = <<"a", "{", "{", "b", "}", "}", "{", "}">>

\* a{b}%s has been escaped and printed
C5_Witness ==
    /\ file.tags = EscapeDoc
    /\ bookmark_types = <<"search">>
    /\ output_format = "oldsearch"
    /\ pc = "done"
    /\ Len(stdout) = 2
    /\ soup[2].attrs.href # file.tags[2].attrs.href

\* C7: no line is produced for an anchor lacking a field its template uses
C7_MissingField ==
    \A p \in Entries :
        (p.line # 0 /\ UsesText(output_format, TypOf(p))) => HasString(Orig(p))

\* C8: a run over an empty or non-markup input never ends successfully
C8_Malformed ==
    file.kind # "markup" => pc \notin {"print", "done"}

\* C9 as stated: a run requesting a category without template under the
\* selected mode never ends successfully
C9_Original ==
    (\E k \in 1..Len(bookmark_types) : ~LegalPair(output_format, bookmark_types[k]))
        => pc \notin {"print", "done"}

\* C9 amended: the missing-template failure is raised exactly when an anchor
\* of a category without template passes the dedup check; it ends the run at
\* that anchor, and a failed run prints nothing
C9_FirstUse ==
    /\ pc = "failed" => stdout = <<>>
    /\ \A k \in 1..Len(processed) :
          (processed[k].admit /\ ~LegalPair(output_format, TypOf(processed[k])))
              => /\ pc = "failed"
                 /\ err = "KeyError_template"
                 /\ k = Len(processed)
                 /\ processed[k].line = 0
    /\ err = "KeyError_template" =>
          /\ pc = "failed"
          /\ processed # <<>>
          /\ processed[Len(processed)].admit
          /\ ~LegalPair(output_format, TypOf(processed[Len(processed)]))

\* an illegal pairing whose only anchor of that category was rejected by the
\* dedup check: the run ends normally
C9_Witness ==
    /\ pc = "done"
    /\ \E p \in Entries : ~p.admit /\ ~LegalPair(output_format, TypOf(p))
    /\ stdout # <<>>

\* C10: the href of every anchor of the parsed document equals its input
\* value, and an anchor processed as Search is not processed again
C10_Immutable ==
    /\ pc \in {"types", "tags", "print", "done"} =>
          \A i \in 1..Len(soup) : soup[i] = file.tags[i]
    /\ \A j, k \in 1..Len(processed) :
          (j < k /\ TypOf(processed[j]) = "search")
              => processed[k].idx # processed[j].idx
====
